---- MODULE Spec2Model ----
(***************************************************************************)
(* Progressive slot-filling engine of the onboarding chat                  *)
(* (src/app/core/llm.py, schema in src/app/api/schemas/onboarding.py).     *)
(*                                                                         *)
(* Text is a sequence of one-character strings, so that strip(), lower(),  *)
(* upper(), split(":") and the regular expressions of the labeled-line     *)
(* parser are computed and not assumed.  A stored or extracted value is a  *)
(* record [t, n, s]: t is the Python type, n the number it carries, s the  *)
(* text it carries:                                                        *)
(*    int    n = the integer                                               *)
(*    float  n = the value in tenths (one fractional digit is kept)        *)
(*    date   n = year*10000 + month*100 + day                              *)
(*    time   n = hour*10000 + minute*100 + second                          *)
(*    bool   n = 1 for True, 0 for False                                   *)
(*    str    s = the characters                                            *)
(*    list   a JSON value that is no scalar (never valid for a field)      *)
(***************************************************************************)
EXTENDS Integers, Sequences, FiniteSets, TLC

VARIABLES _history_store, _profile_store, _skipped_store, calls, today, turns,
          arg, res

vars == <<_history_store, _profile_store, _skipped_store, calls, today, turns,
          arg, res>>

(***************************************************************************)
(* Bounds of the model.                                                    *)
(***************************************************************************)
\* turns begun in one behaviour (over all keys)
MaxTurns == 2
\* times the UTC date changes in one behaviour
MaxTicks == 1

(***************************************************************************)
(* Characters and text                                                     *)
(***************************************************************************)
UpperChars == <<"A","B","C","D","E","F","G","H","I","J","K","L","M",
                "N","O","P","Q","R","S","T","U","V","W","X","Y","Z">>
LowerChars == <<"a","b","c","d","e","f","g","h","i","j","k","l","m",
                "n","o","p","q","r","s","t","u","v","w","x","y","z">>
DigitChars == <<"0","1","2","3","4","5","6","7","8","9">>

Range(seq) == {seq[i] : i \in DOMAIN seq}

IsDigit(c) == c \in Range(DigitChars)
DigitVal(c) == (CHOOSE i \in DOMAIN DigitChars : DigitChars[i] = c) - 1
\* \w of the regular expressions, over the characters of the model
IsWordChar(c) == c \in Range(DigitChars) \cup Range(UpperChars) \cup Range(LowerChars) \cup {"_"}
\* what str.strip() removes
IsSpace(c) == c \in {" ", "\n", "\t"}

LowerChar(c) ==
  IF c \in Range(UpperChars)
    THEN LowerChars[CHOOSE i \in DOMAIN UpperChars : UpperChars[i] = c]
    ELSE c
UpperChar(c) ==
  IF c \in Range(LowerChars)
    THEN UpperChars[CHOOSE i \in DOMAIN LowerChars : LowerChars[i] = c]
    ELSE c

\* str.lower(), str.upper()
Lower(s) == [i \in DOMAIN s |-> LowerChar(s[i])]
Upper(s) == [i \in DOMAIN s |-> UpperChar(s[i])]

\* str.strip()
Strip(s) ==
  LET keep == {i \in DOMAIN s : ~IsSpace(s[i])}
  IN IF keep = {} THEN <<>>
     ELSE LET lo == CHOOSE i \in keep : \A j \in keep : i <= j
              hi == CHOOSE i \in keep : \A j \in keep : j <= i
          IN SubSeq(s, lo, hi)

\* the index of the first c in s, 0 when there is none
IndexOf(s, c) ==
  LET at == {i \in DOMAIN s : s[i] = c}
  IN IF at = {} THEN 0 ELSE CHOOSE i \in at : \A j \in at : i <= j

\* str.splitlines() over text whose only line break is "\n"
RECURSIVE SplitLines(_)
SplitLines(s) ==
  IF s = <<>> THEN <<>>
  ELSE LET i == IndexOf(s, "\n")
       IN IF i = 0 THEN <<s>>
          ELSE <<SubSeq(s, 1, i - 1)>> \o SplitLines(SubSeq(s, i + 1, Len(s)))

\* the number written by the digits s[from..to]
RECURSIVE DigitsVal(_, _, _)
DigitsVal(s, from, to) ==
  IF to < from THEN 0
  ELSE DigitsVal(s, from, to - 1) * 10 + DigitVal(s[to])

AllDigits(s, from, to) == \A i \in from..to : i \in DOMAIN s /\ IsDigit(s[i])

\* the last index of the run of digits that starts at from
DigitRunEnd(s, from) ==
  CHOOSE e \in from..Len(s) :
    /\ AllDigits(s, from, e)
    /\ (e = Len(s) \/ ~IsDigit(s[e + 1]))

\* \b of the regular expressions: a word boundary between s[i] and s[i+1]
WordBoundary(s, i) ==
  LET before == i >= 1 /\ i <= Len(s) /\ IsWordChar(s[i])
      after == i + 1 >= 1 /\ i + 1 <= Len(s) /\ IsWordChar(s[i + 1])
  IN before # after

(***************************************************************************)
(* Values                                                                  *)
(***************************************************************************)
None == [t |-> "none", n |-> 0, s |-> <<>>]
IntV(n) == [t |-> "int", n |-> n, s |-> <<>>]
FloatV(tenths) == [t |-> "float", n |-> tenths, s |-> <<>>]
DateV(ymd) == [t |-> "date", n |-> ymd, s |-> <<>>]
TimeV(hms) == [t |-> "time", n |-> hms, s |-> <<>>]
BoolV(b) == [t |-> "bool", n |-> IF b THEN 1 ELSE 0, s |-> <<>>]
StrV(s) == [t |-> "str", n |-> 0, s |-> s]
ListV == [t |-> "list", n |-> 0, s |-> <<>>]

\* Python truthiness of a stored value
Truthy(v) ==
  CASE v.t = "none" -> FALSE
    [] v.t \in {"int", "float", "bool"} -> v.n # 0
    [] v.t = "str" -> v.s # <<>>
    [] OTHER -> TRUE

Year(ymd) == ymd \div 10000
Month(ymd) == (ymd \div 100) % 100
Day(ymd) == ymd % 100

IsLeap(y) == (y % 4 = 0 /\ y % 100 # 0) \/ y % 400 = 0
DaysInMonth(y, m) ==
  CASE m \in {1, 3, 5, 7, 8, 10, 12} -> 31
    [] m \in {4, 6, 9, 11} -> 30
    [] OTHER -> IF IsLeap(y) THEN 29 ELSE 28

\* the date() constructor accepts year 1..9999, month 1..12, a day of the month
ValidDate(y, m, d) ==
  /\ y >= 1 /\ y <= 9999
  /\ m >= 1 /\ m <= 12
  /\ d >= 1 /\ d <= DaysInMonth(y, m)

\* the time() constructor accepts hour 0..23, minute 0..59, second 0..59
ValidTime(hh, mm, ss) ==
  /\ hh >= 0 /\ hh <= 23
  /\ mm >= 0 /\ mm <= 59
  /\ ss >= 0 /\ ss <= 59

\* date.fromisoformat on YYYY-MM-DD text: the date, or None where it raises
FromIsoFormat(s) ==
  IF /\ Len(s) = 10
     /\ AllDigits(s, 1, 4) /\ s[5] = "-"
     /\ AllDigits(s, 6, 7) /\ s[8] = "-"
     /\ AllDigits(s, 9, 10)
     /\ ValidDate(DigitsVal(s, 1, 4), DigitsVal(s, 6, 7), DigitsVal(s, 9, 10))
    THEN DateV(DigitsVal(s, 1, 4) * 10000 + DigitsVal(s, 6, 7) * 100 + DigitsVal(s, 9, 10))
    ELSE None

(***************************************************************************)
(* Profile schema (UserProfile) and dictionaries                           *)
(***************************************************************************)
\* _ordered_profile_fields(): the fields of UserProfile in declared order
Fields ==
  << "age", "date_of_birth", "gender_or_sex", "height_cm", "weight_kg",
     "sleep_bedtime", "sleep_wake_time", "workout_type", "workout_days_per_week",
     "physical_activity_profile", "substance_alcohol_per_week",
     "substance_tobacco_per_day", "substance_caffeine_mg_per_day",
     "coping_strategies", "preferred_checkin_time", "notification_style",
     "married_status", "social_support", "target_sleep_hours",
     "voice_or_chat_preference" >>

FieldSet == Range(Fields)

\* the declared type of a field of UserProfile
FieldType(f) ==
  CASE f \in {"age", "workout_days_per_week"} -> "int"
    [] f = "date_of_birth" -> "date"
    [] f \in {"height_cm", "weight_kg", "substance_alcohol_per_week",
              "substance_tobacco_per_day", "substance_caffeine_mg_per_day",
              "target_sleep_hours"} -> "float"
    [] f \in {"sleep_bedtime", "sleep_wake_time", "preferred_checkin_time"} -> "time"
    [] f = "social_support" -> "bool"
    [] OTHER -> "str"

\* the empty dict, and dict.get
EmptyDict == [k \in {} |-> None]
Get(d, k) == IF k \in DOMAIN d THEN d[k] ELSE None
\* {**a, **b}
Merge(a, b) == [k \in DOMAIN a \cup DOMAIN b |-> IF k \in DOMAIN b THEN b[k] ELSE a[k]]
\* d with d[k] = v
Put(d, k, v) == [x \in DOMAIN d \cup {k} |-> IF x = k THEN v ELSE d[x]]

(***************************************************************************)
(* Slot-filling policy                                                     *)
(***************************************************************************)
\* _missing_fields that forgets the skipped set
MissingFieldsIgnoringSkipped(profile, skipped) ==
  LET base == SelectSeq(Fields, LAMBDA f : f \notin DOMAIN profile)
      base1 == IF "date_of_birth" \in DOMAIN profile
                 THEN SelectSeq(base, LAMBDA f : f # "age")
                 ELSE base
  IN IF "age" \in DOMAIN profile
       THEN SelectSeq(base1, LAMBDA f : f # "date_of_birth")
       ELSE base1

\* _missing_fields without the redundancy pruning of lines 77-80
MissingFieldsUnpruned(profile, skipped) ==
  SelectSeq(Fields, LAMBDA f : f \notin DOMAIN profile /\ f \notin skipped)

\* _missing_fields(profile, skipped)
MissingFields(profile, skipped) ==
  LET base == SelectSeq(Fields, LAMBDA f : f \notin DOMAIN profile /\ f \notin skipped)
      base1 == IF "date_of_birth" \in DOMAIN profile
                 THEN SelectSeq(base, LAMBDA f : f # "age")
                 ELSE base
      base2 == IF "age" \in DOMAIN profile
                 THEN SelectSeq(base1, LAMBDA f : f # "date_of_birth")
                 ELSE base1
  IN base2

\* the difference of the calendar years alone
YearsBetweenCalendar(dob, day) == Year(day) - Year(dob)

\* whole years from dob to day: the expression of line 93
YearsBetween(dob, day) ==
  Year(day) - Year(dob)
    - (IF Month(day) * 100 + Day(day) < Month(dob) * 100 + Day(dob) THEN 1 ELSE 0)

\* lines 93-95 writing 0 first and the years only over an age that is there
DeriveAgeStepwise(profile, dob, day) ==
  IF dob.t = "date" /\ YearsBetweenCalendar(dob.n, day) >= 0
    THEN Put(profile, "age",
             IF "age" \in DOMAIN profile THEN IntV(YearsBetweenCalendar(dob.n, day)) ELSE IntV(0))
    ELSE profile

\* lines 93-95 without the test of line 94
DeriveAgeUnguarded(profile, dob, day) ==
  IF dob.t = "date"
    THEN Put(profile, "age", IntV(Year(day) - Year(dob.n)
           - (IF Month(day) * 100 + Day(day) < Month(dob.n) * 100 + Day(dob.n) THEN 1 ELSE 0)))
    ELSE profile

\* lines 93-95: dob is the date of birth, None when it could not be read
DeriveAge(profile, dob, day) ==
  IF dob.t = "date" /\ YearsBetween(dob.n, day) >= 0
    THEN Put(profile, "age", IntV(YearsBetween(dob.n, day)))
    ELSE profile

\* line 91: the stored date, or the date its text gives
StoredDate(stored) ==
  IF stored.t = "date" THEN stored
  ELSE IF stored.t = "str" THEN FromIsoFormat(stored.s)
  ELSE None

\* _apply_derived_fields(profile), with the date that datetime.now gives
ApplyDerivedFields(profile, day) ==
  IF Truthy(Get(profile, "date_of_birth")) /\ ~Truthy(Get(profile, "age"))
    THEN DeriveAge(profile, StoredDate(profile["date_of_birth"]), day)
    ELSE profile

(***************************************************************************)
(* Field extractor: the deterministic labeled-line parser                  *)
(***************************************************************************)
\* the characters of a string literal
Chars(str) == [i \in 1..Len(str) |-> SubSeq(str, i, i)]

\* where re.search can start a match of -?\d+ in s
NumberStarts(s) ==
  {i \in DOMAIN s :
     \/ IsDigit(s[i])
     \/ s[i] = "-" /\ i + 1 <= Len(s) /\ IsDigit(s[i + 1])}

MinOf(S) == CHOOSE i \in S : \A j \in S : i <= j

\* int() or float() of a match: the sign and the magnitude
Signed(neg, mag) == IF neg THEN 0 - mag ELSE mag

\* the index of the first digit of the match that starts at i
FirstDigit(s, i) == IF s[i] = "-" THEN i + 1 ELSE i

\* _to_int(value): the first match of -?\d+
ToInt(s) ==
  IF NumberStarts(s) = {} THEN None
  ELSE IntV(Signed(s[MinOf(NumberStarts(s))] = "-",
                   DigitsVal(s, FirstDigit(s, MinOf(NumberStarts(s))),
                             DigitRunEnd(s, FirstDigit(s, MinOf(NumberStarts(s)))))))

\* the match of \d+(?:\.\d+)? whose digits are s[from..e], in tenths
FloatDigits(s, from, e) ==
  DigitsVal(s, from, e) * 10
    + (IF e + 2 <= Len(s) /\ s[e + 1] = "." /\ IsDigit(s[e + 2])
         THEN DigitVal(s[e + 2]) ELSE 0)

\* _to_float(value): the first match of -?\d+(?:\.\d+)?, in tenths
ToFloat(s) ==
  IF NumberStarts(s) = {} THEN None
  ELSE FloatV(Signed(s[MinOf(NumberStarts(s))] = "-",
                     FloatDigits(s, FirstDigit(s, MinOf(NumberStarts(s))),
                                 DigitRunEnd(s, FirstDigit(s, MinOf(NumberStarts(s)))))))

\* \b(\d{1,2}):(\d{2})(?::(\d{2}))?\b matches at i with w hour digits,
\* with (sec) or without the seconds group
TimeMatch(s, i, w, sec) ==
  /\ WordBoundary(s, i - 1)
  /\ AllDigits(s, i, i + w - 1)
  /\ i + w <= Len(s) /\ s[i + w] = ":"
  /\ AllDigits(s, i + w + 1, i + w + 2)
  /\ IF sec
       THEN /\ i + w + 3 <= Len(s) /\ s[i + w + 3] = ":"
            /\ AllDigits(s, i + w + 4, i + w + 5)
            /\ WordBoundary(s, i + w + 5)
       ELSE WordBoundary(s, i + w + 2)

\* time(hour=hh, minute=mm, second=ss), None when it raises
MakeTime(hh, mm, ss) ==
  IF ValidTime(hh, mm, ss) THEN TimeV(hh * 10000 + mm * 100 + ss) ELSE None

\* the groups of the match at i with w hour digits
TimeGroups(s, i, w) ==
  MakeTime(DigitsVal(s, i, i + w - 1),
           DigitsVal(s, i + w + 1, i + w + 2),
           IF TimeMatch(s, i, w, TRUE) THEN DigitsVal(s, i + w + 4, i + w + 5) ELSE 0)

\* the match at i: two hour digits are tried before one
TimeFrom(s, i) ==
  TimeGroups(s, i, IF \E sec \in BOOLEAN : TimeMatch(s, i, 2, sec) THEN 2 ELSE 1)

\* where the pattern of _to_time matches in s
TimeStarts(s) ==
  {i \in DOMAIN s : \E w \in {1, 2} : \E sec \in BOOLEAN : TimeMatch(s, i, w, sec)}

\* re.search on the stripped value: the leftmost match
TimeSearch(s) == IF TimeStarts(s) = {} THEN None ELSE TimeFrom(s, MinOf(TimeStarts(s)))

\* _to_time(value)
ToTime(value) == TimeSearch(Strip(value))

\* \b\d{4}-\d{2}-\d{2}\b matches at i
DateMatch(s, i) ==
  /\ WordBoundary(s, i - 1)
  /\ AllDigits(s, i, i + 3)
  /\ i + 4 <= Len(s) /\ s[i + 4] = "-"
  /\ AllDigits(s, i + 5, i + 6)
  /\ i + 7 <= Len(s) /\ s[i + 7] = "-"
  /\ AllDigits(s, i + 8, i + 9)
  /\ WordBoundary(s, i + 9)

\* where the pattern of _to_date matches in s
DateStarts(s) == {i \in DOMAIN s : DateMatch(s, i)}

\* _to_date(value): the first match, None when date.fromisoformat raises
ToDate(s) ==
  IF DateStarts(s) = {} THEN None
  ELSE FromIsoFormat(SubSeq(s, MinOf(DateStarts(s)), MinOf(DateStarts(s)) + 9))

\* lines 145-149 on the stripped, lower-cased value
BoolOf(v) ==
  IF v \in {Chars("yes"), Chars("y"), Chars("true"), Chars("1")} THEN BoolV(TRUE)
  ELSE IF v \in {Chars("no"), Chars("n"), Chars("false"), Chars("0")} THEN BoolV(FALSE)
  ELSE None

\* _to_bool(value)
ToBool(value) == BoolOf(Lower(Strip(value)))

\* label_to_field of _extract_from_labeled_lines: <<label, field>>
LabelToField ==
  { <<"AGE", "age">>,
    <<"DATE OF BIRTH", "date_of_birth">>,
    <<"GENDER", "gender_or_sex">>,
    <<"GENDER OR SEX", "gender_or_sex">>,
    <<"HEIGHT", "height_cm">>,
    <<"HEIGHT CM", "height_cm">>,
    <<"WEIGHT", "weight_kg">>,
    <<"USUAL BEDTIME", "sleep_bedtime">>,
    <<"BEDTIME", "sleep_bedtime">>,
    <<"USUAL WAKE TIME", "sleep_wake_time">>,
    <<"WAKE TIME", "sleep_wake_time">>,
    <<"PRIMARY WORKOUT TYPE", "workout_type">>,
    <<"WORKOUT TYPE", "workout_type">>,
    <<"WORKOUT DAYS PER WEEK", "workout_days_per_week">>,
    <<"WORK/ACTIVITY STYLE", "physical_activity_profile">>,
    <<"PHYSICAL ACTIVITY PROFILE", "physical_activity_profile">>,
    <<"ALCOHOL CONSUMPTION", "substance_alcohol_per_week">>,
    <<"TOBACCO CONSUMPTION", "substance_tobacco_per_day">>,
    <<"CAFFEINE CONSUMPTION", "substance_caffeine_mg_per_day">>,
    <<"COPING STRATEGIES", "coping_strategies">>,
    <<"PREFERRED CHECK-IN TIME", "preferred_checkin_time">>,
    <<"NOTIFICATION STYLE", "notification_style">>,
    <<"MARITAL STATUS", "married_status">>,
    <<"SOCIAL SUPPORT", "social_support">>,
    <<"TARGET SLEEP HOURS", "target_sleep_hours">>,
    <<"COMMUNICATION PREFERENCE", "voice_or_chat_preference">>,
    <<"VOICE OR CHAT PREFERENCE", "voice_or_chat_preference">> }

\* the parser of a field of declared type ty (lines 198-210), None for no value
ParseAs(ty, value) ==
  CASE ty = "int" -> ToInt(value)
    [] ty = "float" -> ToFloat(value)
    [] ty = "time" -> ToTime(value)
    [] ty = "date" -> ToDate(value)
    [] ty = "bool" -> ToBool(value)
    [] OTHER -> StrV(Lower(value))

ParseLabeled(field, value) == ParseAs(FieldType(field), value)

\* lines 212-213
StoreParsed(updates, field, parsed) ==
  IF parsed # None THEN Put(updates, field, parsed) ELSE updates

\* the fields that label_to_field gives a label
FieldsOfLabel(label) == {p[2] : p \in {q \in LabelToField : Chars(q[1]) = label}}

\* lines 194-213 for a line with label and value
LabeledPair(updates, label, value) ==
  IF FieldsOfLabel(label) = {} THEN updates
  ELSE StoreParsed(updates, CHOOSE f \in FieldsOfLabel(label) : TRUE,
                   ParseLabeled(CHOOSE f \in FieldsOfLabel(label) : TRUE, value))

\* one pass of the loop of _extract_from_labeled_lines over a line
LabeledLine(updates, raw_line) ==
  IF IndexOf(raw_line, ":") = 0 THEN updates
  ELSE LabeledPair(updates,
                   Upper(Strip(SubSeq(raw_line, 1, IndexOf(raw_line, ":") - 1))),
                   Strip(SubSeq(raw_line, IndexOf(raw_line, ":") + 1, Len(raw_line))))

RECURSIVE LabeledLines(_, _)
LabeledLines(updates, lines) ==
  IF lines = <<>> THEN updates
  ELSE LabeledLines(LabeledLine(updates, Head(lines)), Tail(lines))

\* _extract_from_labeled_lines(user_input)
ExtractFromLabeledLines(user_input) ==
  LabeledLines(EmptyDict, SplitLines(Chars(user_input)))

(***************************************************************************)
(* Field extractor: the model-assisted calls and the merge with the parser *)
(***************************************************************************)
\* How the two model calls of _extract_profile_updates behave in one turn:
\*   lc      what the structured-output chain does: "raise" (import or call
\*           fails), "model" (a UserProfile instance), "dict", "other"
\*   data    the fields of the chain's result (None for a null field)
\*   fb      what the JSON-mode call does when the chain has raised: "raise",
\*           "none" (no content), "nonjson", "nondict", "dict"
\*   fbdata  the decoded object of the JSON-mode call
Behaviour(lc, data, fb, fbdata) == [lc |-> lc, data |-> data, fb |-> fb, fbdata |-> fbdata]

ExtractionBehaviours ==
  { Behaviour("model", EmptyDict, "raise", EmptyDict),
    Behaviour("model", [age |-> IntV(0), height_cm |-> None], "raise", EmptyDict),
    Behaviour("dict", [date_of_birth |-> StrV(Chars("2024-06-15")), nickname |-> StrV(Chars("al"))],
              "raise", EmptyDict),
    Behaviour("dict", [age |-> IntV(35), weight_kg |-> StrV(Chars("not-a-number"))],
              "raise", EmptyDict),
    Behaviour("other", EmptyDict, "raise", EmptyDict),
    Behaviour("raise", EmptyDict, "raise", EmptyDict),
    Behaviour("raise", EmptyDict, "none", EmptyDict),
    Behaviour("raise", EmptyDict, "nonjson", EmptyDict),
    Behaviour("raise", EmptyDict, "nondict", EmptyDict),
    Behaviour("raise", EmptyDict, "dict",
              [age |-> IntV(35), nickname |-> StrV(Chars("al")), height_cm |-> None]) }

\* the behaviours drawn where turns run two at a time
ConcurrentBehaviours ==
  { Behaviour("model", EmptyDict, "raise", EmptyDict),
    Behaviour("raise", EmptyDict, "raise", EmptyDict) }

\* {k: v for k, v in data.items() if v is not None}
DropNone(data) == [k \in {x \in DOMAIN data : data[x] # None} |-> data[k]]

\* whether _extract_profile_updates raises: the chain failed and the call of
\* lines 344-353, which no handler encloses, failed too
ExtractionRaises(b) == b.lc = "raise" /\ b.fb = "raise"

\* {k: v for k, v in data.items() if k in fields and v is not None}
KnownNotNone(data) ==
  [k \in {x \in DOMAIN data : x \in FieldSet /\ data[x] # None} |-> data[k]]

\* _extract_profile_updates with the model's values written over the
\* parser's
MergeExtractedModelFirst(b, labeled) ==
  IF b.lc # "raise"
    THEN Merge(labeled, DropNone(IF b.lc \in {"model", "dict"} THEN b.data ELSE EmptyDict))
    ELSE IF b.fb \in {"nonjson", "nondict"} THEN EmptyDict
    ELSE Merge(labeled, KnownNotNone(IF b.fb = "dict" THEN b.fbdata ELSE EmptyDict))

\* what _extract_profile_updates returns when the calls behave as b and the
\* labeled lines of the utterance give labeled
MergeExtracted(b, labeled) ==
  IF b.lc # "raise"
    THEN Merge(DropNone(IF b.lc \in {"model", "dict"} THEN b.data ELSE EmptyDict), labeled)
    ELSE IF b.fb \in {"nonjson", "nondict"} THEN EmptyDict
    ELSE Merge(KnownNotNone(IF b.fb = "dict" THEN b.fbdata ELSE EmptyDict), labeled)

\* _extract_profile_updates(user_input) when it returns
ExtractProfileUpdates(user_input, b) ==
  MergeExtracted(b, ExtractFromLabeledLines(user_input))

(***************************************************************************)
(* UserProfile: validation and coercion of a mapping                       *)
(***************************************************************************)
\* text that is an integer literal
IsIntText(s) ==
  LET from == IF Len(s) >= 1 /\ s[1] = "-" THEN 2 ELSE 1
  IN from <= Len(s) /\ AllDigits(s, from, Len(s))

\* text that is HH:MM or HH:MM:SS
IsTimeText(s) ==
  /\ Len(s) \in {5, 8}
  /\ AllDigits(s, 1, 2) /\ s[3] = ":" /\ AllDigits(s, 4, 5)
  /\ Len(s) = 8 => (s[6] = ":" /\ AllDigits(s, 7, 8))

\* the value a field of UserProfile takes from input v, None when v is
\* rejected: the declared type as it is, an int for a float, an integral
\* float or integer text for an int, ISO text for a date or a time
Coerce(f, v) ==
  LET ty == FieldType(f)
  IN CASE v.t = ty -> v
       [] ty = "float" /\ v.t = "int" -> FloatV(v.n * 10)
       [] ty = "int" /\ v.t = "float" /\ v.n % 10 = 0 -> IntV(v.n \div 10)
       [] ty = "int" /\ v.t = "str" /\ IsIntText(v.s) -> ToInt(v.s)
       [] ty = "date" /\ v.t = "str" -> FromIsoFormat(v.s)
       [] ty = "time" /\ v.t = "str" /\ IsTimeText(v.s) -> ToTime(v.s)
       [] OTHER -> None

\* whether constructing UserProfile from m raises: a declared field has a value, not None,
\* that its type rejects (keys that are no field are ignored)
ValidationFails(m) ==
  \E f \in DOMAIN m \cap FieldSet : m[f] # None /\ Coerce(f, m[f]) = None

\* model_dump() that leaves the unset fields out
ModelDumpSparse(m) ==
  [f \in {x \in DOMAIN m \cap FieldSet : m[x] # None} |-> Coerce(f, m[f])]

\* model_dump() of the UserProfile made from m: every declared field, None when unset
ModelDump(m) ==
  [f \in FieldSet |-> IF f \in DOMAIN m /\ m[f] # None THEN Coerce(f, m[f]) ELSE None]

(***************************************************************************)
(* Prompt synthesizer                                                      *)
(***************************************************************************)
\* no field: the None of targeted_field and next_field
NoField == ""

\* missing[0] if missing else None
FirstOrNone(missing) == IF missing = <<>> THEN NoField ELSE Head(missing)

\* _build_system_prompt that does not look at the skipped set
BuildSystemPromptUnskipped(profile, skipped) ==
  [ tail |-> IF FirstOrNone(MissingFields(profile, {})) # NoField THEN "NEXT_FIELD" ELSE "SUMMARY",
    next_field |-> FirstOrNone(MissingFields(profile, {})) ]

\* _build_system_prompt(profile, skipped): the part of the prompt that the
\* state decides, the tail instruction next_instr (the rest is fixed text,
\* the clock and the checklist of all fields in declared order)
BuildSystemPrompt(profile, skipped) ==
  LET next_field == FirstOrNone(MissingFields(profile, skipped))
  IN [ tail |-> IF next_field # NoField THEN "NEXT_FIELD" ELSE "SUMMARY",
       next_field |-> next_field ]

(***************************************************************************)
(* Conversation store and the calls in flight                              *)
(***************************************************************************)
\* conversation keys (user_id, session_id)
Keys == {<<"u1", "s1">>, <<"u2", "s1">>}
\* the key of the turns that run one after the other
SerialKeys == {<<"u1", "s1">>}

\* the request threads that can run generate_onboarding_reply at once
Calls == {1, 2}

\* what users send: in the turns of one key that run one after the other,
\* and where turns run two at a time
Utterances == {" N/A\n", "Age: 34\nUsual Bedtime: 22:30", "Date of Birth: 1990-06-15"}
ConcurrentUtterances == {"skip", "Age: 34\nUsual Bedtime: 22:30"}

\* response.choices[0].message.content of the completion call (None: no content)
NoContent == "<None>"
Contents == {NoContent, "Which one?"}
ConcurrentContents == {"Which one?"}

\* the UTC date after i changes of day, datetime.now(timezone.utc).date():
\* the first day is 2024-06-14 (the days stay in June 2024 for i <= 16)
ClockDate(i) == 20240614 + i

\* the three records of a key as values; a record that setdefault has not
\* created yet reads as the empty one it would create
KeyState(k) ==
  [ history |-> IF k \in DOMAIN _history_store THEN _history_store[k] ELSE <<>>,
    profile |-> IF k \in DOMAIN _profile_store THEN _profile_store[k] ELSE EmptyDict,
    skipped |-> IF k \in DOMAIN _skipped_store THEN _skipped_store[k] ELSE {} ]

EmptyState == [history |-> <<>>, profile |-> EmptyDict, skipped |-> {}]

Message(role, content) == [role |-> role, content |-> content]

\* normalized in {"skip", "unknown", "na", "n/a"} (lines 385-386)
IsSkipToken(user_input) ==
  Lower(Strip(Chars(user_input))) \in {Chars("skip"), Chars("unknown"), Chars("na"), Chars("n/a")}

\* lines 383-387 with an assignment in place of skipped.add
SkipFieldReplacing(skipped, targeted_field, user_input) ==
  IF targeted_field # NoField /\ IsSkipToken(user_input)
    THEN {targeted_field}
    ELSE skipped

\* lines 383-387 without the skipped.add
SkipFieldIgnored(skipped, targeted_field, user_input) == skipped

\* lines 383-387 without the test of the utterance
SkipFieldAlways(skipped, targeted_field, user_input) ==
  IF targeted_field # NoField THEN skipped \cup {targeted_field} ELSE skipped

\* lines 383-387: the skipped set after the skip handling
SkipField(skipped, targeted_field, user_input) ==
  IF targeted_field # NoField /\ IsSkipToken(user_input)
    THEN skipped \cup {targeted_field}
    ELSE skipped

\* lines 380-387 with the profile that line 377 leaves
SkipTargeted(st, profile, user_input) ==
  [ history |-> st.history,
    profile |-> profile,
    skipped |-> SkipField(st.skipped, FirstOrNone(MissingFields(profile, st.skipped)),
                          user_input) ]

\* lines 376-387 on a key's records: derive, find the targeted field, skip it
AfterSkipHandling(st, user_input, day) ==
  SkipTargeted(st, ApplyDerivedFields(st.profile, day), user_input)

\* response.choices[0].message.content or ""
ReplyText(content) == IF content = NoContent THEN "" ELSE content

\* lines 409-411 with an assignment in place of the two appends
AfterReplyReplacing(st, user_input, reply_text) ==
  [ history |-> << Message("user", user_input), Message("assistant", reply_text) >>,
    profile |-> st.profile,
    skipped |-> st.skipped ]

\* lines 409-411 on a key's records
AfterReply(st, user_input, reply_text) ==
  [ history |-> Append(Append(st.history, Message("user", user_input)),
                       Message("assistant", reply_text)),
    profile |-> st.profile,
    skipped |-> st.skipped ]

\* lines 418-427 with a handler that stores the fields that do validate
StoreValidatedFields(profile, merged) ==
  [f \in {x \in DOMAIN merged \cap FieldSet : merged[x] # None /\ Coerce(x, merged[x]) # None}
     |-> Coerce(f, merged[f])]

\* lines 418-427 storing only the fields the profile did not hold
StoreValidatedOnlyNew(profile, merged) ==
  IF ValidationFails(merged) THEN profile
  ELSE [f \in {x \in DOMAIN merged \cap FieldSet : merged[x] # None /\ x \notin DOMAIN profile}
          |-> Coerce(f, merged[f])]

\* lines 418-427: the profile after validation of the merged mapping
StoreValidated(profile, merged) ==
  IF ValidationFails(merged) THEN profile ELSE DropNone(ModelDump(merged))

\* lines 415-427: the profile after the merge of updates
MergeUpdates(profile, updates) ==
  IF DOMAIN updates = {} THEN profile
  ELSE StoreValidated(profile, Merge(profile, updates))

\* lines 415-430 on a key's records
AfterMerge(st, updates, day) ==
  [ history |-> st.history,
    profile |-> ApplyDerivedFields(MergeUpdates(st.profile, updates), day),
    skipped |-> st.skipped ]

\* a call that is not running
IdleCall ==
  [ pc |-> "idle", key |-> <<"", "">>, user_input |-> "", targeted_field |-> NoField,
    prompt |-> BuildSystemPrompt(EmptyDict, {}), reply_text |-> "", full_profile |-> EmptyDict,
    stage |-> "", pre |-> EmptyState, mid |-> EmptyDict, updates |-> EmptyDict,
    merge_failed |-> FALSE, overlap |-> FALSE, turn |-> 0,
    day_begin |-> 0, day_end |-> 0,
    content |-> NoContent, behaviour |-> Behaviour("", EmptyDict, "", EmptyDict),
    alone |-> TRUE ]

InFlight(c) == calls[c].pc \in {"completion", "extraction"}

\* the inputs of the policy functions when they are called on their own
NoArg == [profile |-> EmptyDict, skipped |-> {}, day |-> 0]
NoRes == [op |-> "none", missing |-> <<>>, profile |-> EmptyDict]

Init ==
  /\ _history_store = <<>>
  /\ _profile_store = <<>>
  /\ _skipped_store = <<>>
  /\ calls = [c \in Calls |-> IdleCall]
  /\ today = 0
  /\ turns = 0
  /\ arg = NoArg
  /\ res = NoRes

\* stores that keep one record for all the keys
StoreStateShared(k, st) ==
  /\ _history_store' = [x \in DOMAIN _history_store \cup {k} |-> st.history]
  /\ _profile_store' = [x \in DOMAIN _profile_store \cup {k} |-> st.profile]
  /\ _skipped_store' = [x \in DOMAIN _skipped_store \cup {k} |-> st.skipped]

\* the store with the records of key k set to st
StoreState(k, st) ==
  /\ _history_store' = Put(_history_store, k, st.history)
  /\ _profile_store' = Put(_profile_store, k, st.profile)
  /\ _skipped_store' = Put(_skipped_store, k, st.skipped)

\* generate_onboarding_reply, lines 372-402: the records are fetched (and
\* created), the skip is handled, the prompt is built and the completion
\* request is sent.  The call takes the first thread that is free.
Begin(c, k, user_input) ==
  /\ turns < MaxTurns
  /\ ~InFlight(c)
  /\ \A d \in Calls : d < c => InFlight(d)
  /\ \E pre \in {KeyState(k)} :
       \E st \in {AfterSkipHandling(pre, user_input, ClockDate(today))} :
         /\ StoreState(k, st)
         /\ calls' = [d \in Calls |->
              IF d = c
                THEN [ IdleCall EXCEPT
                  !.pc = "completion", !.key = k, !.user_input = user_input,
                  !.targeted_field = FirstOrNone(MissingFields(st.profile, pre.skipped)),
                  !.prompt = BuildSystemPrompt(st.profile, st.skipped),
                  !.pre = pre,
                  !.overlap = \E e \in Calls : e # c /\ InFlight(e) /\ calls[e].key = k,
                  !.alone = ~\E e \in Calls : e # c /\ InFlight(e) /\ calls[e].key = k,
                  !.turn = turns + 1,
                  !.day_begin = ClockDate(today) ]
                ELSE IF calls[d].key = k THEN [calls[d] EXCEPT !.alone = FALSE]
                ELSE calls[d]]
  /\ turns' = turns + 1
  /\ UNCHANGED <<today, arg, res>>

\* the completion call raises: generate_onboarding_reply ends at line 402
CompletionRaises(c) ==
  /\ calls[c].pc = "completion"
  /\ calls' = [calls EXCEPT ![c].pc = "raised", ![c].stage = "completion"]
  /\ UNCHANGED <<_history_store, _profile_store, _skipped_store, today, turns, arg, res>>

\* the completion call returns: lines 409-411, then the extraction calls start
CompletionReturns(c, content) ==
  /\ calls[c].pc = "completion"
  /\ StoreState(calls[c].key,
                AfterReply(KeyState(calls[c].key), calls[c].user_input, ReplyText(content)))
  /\ calls' = [calls EXCEPT ![c].pc = "extraction",
                            ![c].content = content,
                            ![c].reply_text = ReplyText(content)]
  /\ UNCHANGED <<today, turns, arg, res>>

\* _extract_profile_updates raises (line 414): generate_onboarding_reply ends
ExtractionFails(c, b) ==
  /\ calls[c].pc = "extraction"
  /\ ExtractionRaises(b)
  /\ calls' = [calls EXCEPT ![c].pc = "raised", ![c].stage = "extraction",
                            ![c].behaviour = b,
                            ![c].mid = KeyState(calls[c].key).profile]
  /\ UNCHANGED <<_history_store, _profile_store, _skipped_store, today, turns, arg, res>>

\* _extract_profile_updates returns: lines 414-434
ExtractionReturns(c, b) ==
  /\ calls[c].pc = "extraction"
  /\ ~ExtractionRaises(b)
  /\ \E before \in {KeyState(calls[c].key)} :
       \E updates \in {ExtractProfileUpdates(calls[c].user_input, b)} :
         \E st \in {AfterMerge(before, updates, ClockDate(today))} :
           /\ StoreState(calls[c].key, st)
           /\ calls' = [calls EXCEPT
                ![c].pc = "returned", ![c].stage = "done",
                ![c].mid = before.profile,
                ![c].updates = updates,
                ![c].behaviour = b,
                ![c].merge_failed = DOMAIN updates # {}
                                      /\ ValidationFails(Merge(before.profile, updates)),
                ![c].day_end = ClockDate(today),
                ![c].full_profile = ModelDump(st.profile) ]
  /\ UNCHANGED <<today, turns, arg, res>>

\* get_history(user_id, session_id): _get_history creates the history record
GetHistory(k) ==
  /\ _history_store' = Put(_history_store, k, KeyState(k).history)
  /\ UNCHANGED <<_profile_store, _skipped_store, calls, today, turns, arg, res>>

\* the UTC date changes
Tick ==
  /\ today < MaxTicks
  /\ today' = today + 1
  /\ UNCHANGED <<_history_store, _profile_store, _skipped_store, calls, turns, arg, res>>

Next ==
  \/ \E c \in Calls, k \in Keys, u \in ConcurrentUtterances : Begin(c, k, u)
  \/ \E c \in Calls : CompletionRaises(c)
  \/ \E c \in Calls, content \in ConcurrentContents : CompletionReturns(c, content)
  \/ \E c \in Calls, b \in ConcurrentBehaviours : ExtractionFails(c, b)
  \/ \E c \in Calls, b \in ConcurrentBehaviours : ExtractionReturns(c, b)
  \/ \E k \in Keys : GetHistory(k)
  \/ Tick

\* turns of any keys, two at a time at most
Spec == Init /\ [][Next]_vars

\* a turn begins when no other turn is running
SerialBegin(c, k, user_input) ==
  /\ \A d \in Calls : ~InFlight(d)
  /\ Begin(c, k, user_input)

NextSerial ==
  \/ \E c \in Calls, k \in SerialKeys, u \in Utterances : SerialBegin(c, k, u)
  \/ \E c \in Calls : CompletionRaises(c)
  \/ \E c \in Calls, content \in Contents : CompletionReturns(c, content)
  \/ \E c \in Calls, b \in ExtractionBehaviours : ExtractionFails(c, b)
  \/ \E c \in Calls, b \in ExtractionBehaviours : ExtractionReturns(c, b)
  \/ \E k \in SerialKeys : GetHistory(k)
  \/ Tick

\* the turns of one key, one after the other
SpecSerial == Init /\ [][NextSerial]_vars

(***************************************************************************)
(* The policy functions called on their own                                *)
(***************************************************************************)
\* profiles over three fields, as lines 377 and 430 can find them
PolicyValues(f) ==
  CASE f = "age" -> {IntV(0), IntV(40)}
    [] f = "date_of_birth" -> {DateV(19900615), DateV(20240615)}
    [] OTHER -> {StrV(Chars("f"))}

PolicyProfiles ==
  UNION { {p \in [D -> UNION {PolicyValues(f) : f \in D}] : \A f \in D : p[f] \in PolicyValues(f)}
            : D \in SUBSET {"age", "date_of_birth", "gender_or_sex"} }

PolicySkips == SUBSET {"age", "date_of_birth", "gender_or_sex", "voice_or_chat_preference"}

InitPolicy ==
  /\ _history_store = <<>>
  /\ _profile_store = <<>>
  /\ _skipped_store = <<>>
  /\ calls = [c \in Calls |-> IdleCall]
  /\ today = 0
  /\ turns = 0
  /\ arg \in [profile : PolicyProfiles, skipped : PolicySkips, day : {20240110, ClockDate(0), ClockDate(1)}]
  /\ res = NoRes

\* _missing_fields(profile, skipped) is called
CallMissingFields ==
  /\ res.op = "none"
  /\ res' = [op |-> "missing", missing |-> MissingFields(arg.profile, arg.skipped),
             profile |-> arg.profile]
  /\ UNCHANGED <<_history_store, _profile_store, _skipped_store, calls, today, turns, arg>>

\* _apply_derived_fields(profile) is called
CallApplyDerivedFields ==
  /\ res.op = "none"
  /\ res' = [op |-> "derive", missing |-> <<>>,
             profile |-> ApplyDerivedFields(arg.profile, arg.day)]
  /\ UNCHANGED <<_history_store, _profile_store, _skipped_store, calls, today, turns, arg>>

\* _apply_derived_fields(profile) is called again on the profile it left
CallApplyDerivedFieldsAgain ==
  /\ res.op = "derive"
  /\ res' = [op |-> "derive_again", missing |-> <<>>,
             profile |-> ApplyDerivedFields(res.profile, arg.day)]
  /\ UNCHANGED <<_history_store, _profile_store, _skipped_store, calls, today, turns, arg>>

NextPolicy ==
  \/ CallMissingFields
  \/ CallApplyDerivedFields
  \/ CallApplyDerivedFieldsAgain

\* one call of a policy function on a profile, a skipped set and a date
SpecPolicy == InitPolicy /\ [][NextPolicy]_vars

\* values for the derivation: a date_of_birth can also be text, which line 91
\* parses, and text that is no ISO date
DeriveValues(f) ==
  CASE f = "age" -> {IntV(0), IntV(40)}
    [] f = "date_of_birth" -> {DateV(19900615), DateV(20240615),
                               StrV(Chars("1990-06-15")), StrV(Chars("15/06/1990"))}
    [] OTHER -> {StrV(Chars("f"))}

DeriveProfiles ==
  UNION { {p \in [D -> UNION {DeriveValues(f) : f \in D}] : \A f \in D : p[f] \in DeriveValues(f)}
            : D \in SUBSET {"age", "date_of_birth", "gender_or_sex"} }

InitDerive ==
  /\ _history_store = <<>>
  /\ _profile_store = <<>>
  /\ _skipped_store = <<>>
  /\ calls = [c \in Calls |-> IdleCall]
  /\ today = 0
  /\ turns = 0
  /\ arg \in [profile : DeriveProfiles, skipped : PolicySkips,
              day : {20240110, ClockDate(0), ClockDate(1)}]
  /\ res = NoRes

\* the policy functions on profiles whose date_of_birth may be text
SpecDerive == InitDerive /\ [][NextPolicy]_vars

(***************************************************************************)
(* _extract_profile_updates called on its own                              *)
(***************************************************************************)
\* utterances with and without labeled lines
ExtractionUtterances ==
  Utterances \cup { "skip", "I am thirty",
                    "AGE : 7 years\nSocial Support: yes",
                    "Weight: abc\nHeight: 170.5" }

InitExtraction ==
  /\ _history_store = <<>>
  /\ _profile_store = <<>>
  /\ _skipped_store = <<>>
  /\ calls = [c \in Calls |-> IdleCall]
  /\ today = 0
  /\ turns = 0
  /\ arg \in [user_input : ExtractionUtterances, behaviour : ExtractionBehaviours]
  /\ res = NoRes

\* _extract_profile_updates(user_input) returns
CallExtractProfileUpdates ==
  /\ res.op = "none"
  /\ ~ExtractionRaises(arg.behaviour)
  /\ res' = [op |-> "extract",
             updates |-> ExtractProfileUpdates(arg.user_input, arg.behaviour)]
  /\ UNCHANGED <<_history_store, _profile_store, _skipped_store, calls, today, turns, arg>>

\* _extract_profile_updates(user_input) raises
CallExtractProfileUpdatesRaises ==
  /\ res.op = "none"
  /\ ExtractionRaises(arg.behaviour)
  /\ res' = [op |-> "extract_raised", updates |-> EmptyDict]
  /\ UNCHANGED <<_history_store, _profile_store, _skipped_store, calls, today, turns, arg>>

NextExtraction ==
  \/ CallExtractProfileUpdates
  \/ CallExtractProfileUpdatesRaises

\* one call of _extract_profile_updates on an utterance, the model calls
\* behaving in one of the ways drawn
SpecExtraction == InitExtraction /\ [][NextExtraction]_vars

(***************************************************************************)
(* A whole onboarding on one key: serial turns that all succeed            *)
(***************************************************************************)
\* turns of one onboarding
MaxFillingTurns == 22

FillingKey == <<"u1", "s1">>

\* the fields this user may decline to give
FillingSkippable ==
  {"age", "date_of_birth", "gender_or_sex", "workout_type", "social_support",
   "voice_or_chat_preference"}

\* the words the user declines field f with
FillingSkipTokens(f) == IF f = "age" THEN {"skip", " N/A\n"} ELSE {"Unknown"}

\* the labeled line the user answers the question for field f with
FillingUtterance(f) ==
  CASE f = "age" -> "Age: 34"
    [] f = "date_of_birth" -> "Date of Birth: 1990-06-15"
    [] f = "gender_or_sex" -> "Gender: Female"
    [] f = "height_cm" -> "Height: 170.5"
    [] f = "weight_kg" -> "Weight: 64 kg"
    [] f = "sleep_bedtime" -> "Usual Bedtime: 22:30"
    [] f = "sleep_wake_time" -> "Wake time: 6:45"
    [] f = "workout_type" -> "Workout type: Running"
    [] f = "workout_days_per_week" -> "Workout days per week: 3"
    [] f = "physical_activity_profile" -> "Physical activity profile: desk job"
    [] f = "substance_alcohol_per_week" -> "Alcohol consumption: 2"
    [] f = "substance_tobacco_per_day" -> "Tobacco consumption: 0"
    [] f = "substance_caffeine_mg_per_day" -> "Caffeine consumption: 180"
    [] f = "coping_strategies" -> "Coping strategies: walks"
    [] f = "preferred_checkin_time" -> "Preferred check-in time: 08:30"
    [] f = "notification_style" -> "Notification style: gentle"
    [] f = "married_status" -> "Marital status: single"
    [] f = "social_support" -> "Social support: yes"
    [] f = "target_sleep_hours" -> "Target sleep hours: 7.5"
    [] OTHER -> "Communication preference: chat"

\* what the user says when no question is open
FillingChat == {"skip", "thanks"}

\* the model calls of the extraction add nothing to the labeled lines
FillingBehaviour == Behaviour("model", EmptyDict, "raise", EmptyDict)

\* the field that a turn beginning now targets (lines 377-381)
FillingTarget ==
  FirstOrNone(MissingFields(ApplyDerivedFields(KeyState(FillingKey).profile, ClockDate(today)),
                            KeyState(FillingKey).skipped))

\* the record of a turn that ran from pre through mid (after line 387) to st
FillingRecord(user_input, pre, mid, updates, st) ==
  [ IdleCall EXCEPT
      !.pc = "returned", !.stage = "done", !.key = FillingKey,
      !.user_input = user_input,
      !.targeted_field = FirstOrNone(MissingFields(mid.profile, pre.skipped)),
      !.prompt = BuildSystemPrompt(mid.profile, mid.skipped),
      !.pre = pre, !.mid = mid.profile, !.updates = updates,
      !.merge_failed = DOMAIN updates # {} /\ ValidationFails(Merge(mid.profile, updates)),
      !.content = "Which one?", !.reply_text = ReplyText("Which one?"),
      !.behaviour = FillingBehaviour,
      !.turn = turns + 1,
      !.day_begin = ClockDate(today), !.day_end = ClockDate(today),
      !.full_profile = ModelDump(st.profile) ]

\* generate_onboarding_reply, lines 372-434, as one step: the completion
\* call returns and the extraction returns the labeled lines
FillingTurn(user_input) ==
  /\ turns < MaxFillingTurns
  /\ \E pre \in {KeyState(FillingKey)} :
       \E mid \in {AfterSkipHandling(pre, user_input, ClockDate(today))} :
         \E updates \in {ExtractProfileUpdates(user_input, FillingBehaviour)} :
           \E st \in {AfterMerge(AfterReply(mid, user_input, ReplyText("Which one?")),
                                 updates, ClockDate(today))} :
             /\ StoreState(FillingKey, st)
             /\ calls' = [calls EXCEPT ![1] = FillingRecord(user_input, pre, mid, updates, st)]
  /\ turns' = turns + 1
  /\ UNCHANGED <<today, arg, res>>

\* the user declines the field asked for
FillingSkip ==
  /\ FillingTarget \in FillingSkippable
  /\ \E u \in FillingSkipTokens(FillingTarget) : FillingTurn(u)

\* the user gives the field asked for
FillingAnswer ==
  /\ FillingTarget # NoField
  /\ FillingTurn(FillingUtterance(FillingTarget))

\* the user writes when every field is stored or skipped
FillingAfter ==
  /\ FillingTarget = NoField
  /\ \E u \in FillingChat : FillingTurn(u)

NextFilling ==
  \/ FillingSkip
  \/ FillingAnswer
  \/ FillingAfter
  \/ Tick

\* one onboarding from the first turn to the turns after the last field
SpecFilling == Init /\ [][NextFilling]_vars

(***************************************************************************)
(* Properties                                                              *)
(***************************************************************************)
\* the records of the key of call c
StateOf(c) == KeyState(calls[c].key)

\* C1: when the completion call of a turn raises, the history, the profile
\* and the skipped set of the key are what they were before the turn.
C1_FailedCompletionLeavesState ==
  \A c \in Calls :
    (calls[c].pc = "raised" /\ calls[c].stage = "completion")
      => StateOf(c) = calls[c].pre

\* C2: a turn whose completion call succeeded never ends by raising: a
\* failure of the extraction calls does not fail the turn.
C2_ExtractionNeverFailsTurn ==
  \A c \in Calls : calls[c].pc = "raised" => calls[c].stage = "completion"

\* C3 as stated: after a turn whose merged mapping failed validation, the
\* stored profile equals the profile as it was just before the extraction step.
C3_FailedMergeKeepsProfile ==
  \A c \in Calls :
    (calls[c].pc = "returned" /\ calls[c].merge_failed)
      => StateOf(c).profile = calls[c].mid

\* C3 as amended: after a turn whose merged mapping failed validation, the
\* stored profile is the profile as it was just before the extraction step
\* with the derivation of line 430 applied to it; no field of the failed
\* merge is stored, and only age can differ.
C3_FailedMergeStoresNothing ==
  \A c \in Calls :
    (calls[c].pc = "returned" /\ calls[c].merge_failed)
      => /\ StateOf(c).profile = ApplyDerivedFields(calls[c].mid, calls[c].day_end)
         /\ \A f \in (DOMAIN calls[c].updates \cup DOMAIN StateOf(c).profile) \ {"age"} :
              Get(StateOf(c).profile, f) = Get(calls[c].mid, f)

\* a turn has returned after a merge that failed validation, over a profile
\* that held a value
C3_Witness ==
  \E c \in Calls :
    /\ calls[c].pc = "returned" /\ calls[c].merge_failed
    /\ DOMAIN calls[c].mid # {}
    /\ "age" \in DOMAIN calls[c].updates

\* the records of a key after the whole turn of call record r runs on st
SerialTurn(st, r) ==
  AfterMerge(AfterReply(AfterSkipHandling(st, r.user_input, r.day_begin),
                        r.user_input, r.reply_text),
             r.updates, r.day_end)

\* C4: two turns that overlap on one key leave the history, the profile and
\* the skipped set that one of the two sequential orders leaves.
C4_ConcurrentTurnsSerialize ==
  \A c, d \in Calls :
    ( /\ c # d
      /\ calls[c].pc = "returned" /\ calls[d].pc = "returned"
      /\ calls[c].key = calls[d].key
      /\ ~calls[c].overlap /\ calls[d].overlap
      /\ calls[d].turn = calls[c].turn + 1
      /\ calls[c].day_end = calls[c].day_begin
      /\ calls[d].day_begin = calls[c].day_begin
      /\ calls[d].day_end = calls[c].day_begin )
      => StateOf(c) \in { SerialTurn(SerialTurn(calls[c].pre, calls[c]), calls[d]),
                          SerialTurn(SerialTurn(calls[c].pre, calls[d]), calls[c]) }

\* C5: after a turn, every field the profile held before the turn is still
\* in it, with its previous value unless the extraction of the turn returned
\* a value for that field.
C5_MergeKeepsStoredValues ==
  \A c \in Calls :
    calls[c].pc = "returned"
      => \A f \in DOMAIN calls[c].pre.profile :
           /\ f \in DOMAIN StateOf(c).profile
           /\ \/ StateOf(c).profile[f] = calls[c].pre.profile[f]
              \/ f \in DOMAIN calls[c].updates

\* C6: _apply_derived_fields leaves a profile in which age is present
\* unchanged, whatever the age (0 included).
C6_DerivedKeepsPresentAge ==
  (res.op = "derive" /\ "age" \in DOMAIN arg.profile) => res.profile = arg.profile

\* the place of a field in the declared order
FieldIndex(f) == CHOOSE i \in DOMAIN Fields : Fields[i] = f

\* the fields that the redundancy rules of _missing_fields drop for a profile
Redundant(profile) ==
  (IF "date_of_birth" \in DOMAIN profile THEN {"age"} ELSE {})
    \cup (IF "age" \in DOMAIN profile THEN {"date_of_birth"} ELSE {})

\* C7: _missing_fields(P, S) holds no key of P and no member of S, and lists
\* the remaining fields (those the redundancy rules keep) in declared order.
C7_MissingExcludesPresentAndSkipped ==
  res.op = "missing"
    => /\ \A i \in DOMAIN res.missing :
            res.missing[i] \notin DOMAIN arg.profile /\ res.missing[i] \notin arg.skipped
       /\ \A i, j \in DOMAIN res.missing :
            i < j => FieldIndex(res.missing[i]) < FieldIndex(res.missing[j])
       /\ Range(res.missing)
            = FieldSet \ (DOMAIN arg.profile \cup arg.skipped \cup Redundant(arg.profile))

\* _missing_fields was called with a profile that holds a field and a skipped
\* set that holds another, and fields remain
C7_Witness ==
  /\ res.op = "missing"
  /\ "gender_or_sex" \in DOMAIN arg.profile
  /\ "voice_or_chat_preference" \in arg.skipped
  /\ Len(res.missing) > 1

\* C8: with date_of_birth in the profile age is not missing, and with age in
\* the profile date_of_birth is not missing, whatever the skipped set; so
\* neither is the first missing field, the one a turn targets.
C8_RedundancySuppression ==
  res.op = "missing"
    => /\ "date_of_birth" \in DOMAIN arg.profile
            => ("age" \notin Range(res.missing) /\ FirstOrNone(res.missing) # "age")
       /\ "age" \in DOMAIN arg.profile
            => ("date_of_birth" \notin Range(res.missing)
                  /\ FirstOrNone(res.missing) # "date_of_birth")

\* _missing_fields was called with one of the two fields stored and the other
\* neither stored nor skipped
C8_Witness ==
  /\ res.op = "missing"
  /\ \/ /\ "date_of_birth" \in DOMAIN arg.profile
        /\ "age" \notin DOMAIN arg.profile /\ "age" \notin arg.skipped
     \/ /\ "age" \in DOMAIN arg.profile
        /\ "date_of_birth" \notin DOMAIN arg.profile /\ "date_of_birth" \notin arg.skipped

\* C9: a turn that had a targeted field T, whose utterance is a skip token
\* and whose completion call succeeded returns a reply, with T in the skipped
\* set, T absent from the profile and the utterance and the reply appended
\* to the history.
C9_SkipTurn ==
  \A c \in Calls :
    ( /\ calls[c].stage \in {"extraction", "done"}
      /\ calls[c].targeted_field # NoField
      /\ IsSkipToken(calls[c].user_input) )
      => /\ calls[c].pc = "returned"
         /\ calls[c].targeted_field \in StateOf(c).skipped
         /\ calls[c].targeted_field \notin DOMAIN StateOf(c).profile
         /\ StateOf(c).history
              = calls[c].pre.history
                  \o << Message("user", calls[c].user_input),
                        Message("assistant", calls[c].reply_text) >>

\* C10: a field that is in the skipped set of a key is in it in every later
\* state.
C10_SkippedMonotonic ==
  [][\A k \in Keys :
       /\ k \in DOMAIN _skipped_store => k \in DOMAIN _skipped_store'
       /\ KeyState(k).skipped
            \subseteq (IF k \in DOMAIN _skipped_store' THEN _skipped_store'[k] ELSE {})]_vars

\* a turn that is no skip has returned on a key whose skipped set held a field
C10_Witness ==
  \E c \in Calls :
    /\ calls[c].pc = "returned"
    /\ calls[c].pre.skipped # {}
    /\ ~IsSkipToken(calls[c].user_input)
    /\ calls[c].pre.skipped \subseteq StateOf(c).skipped

\* C11: when a turn whose merge validated returns, every field that was in
\* the skipped set before the turn and for which the extraction returned a
\* value is in the profile with that value (as the schema coerces it), and
\* is still in the skipped set.
C11_SkippedFieldAccepted ==
  \A c \in Calls :
    (calls[c].pc = "returned" /\ ~calls[c].merge_failed)
      => \A f \in calls[c].pre.skipped \cap DOMAIN calls[c].updates \cap FieldSet :
           /\ f \in DOMAIN StateOf(c).profile
           /\ StateOf(c).profile[f] = Coerce(f, calls[c].updates[f])
           /\ f \in StateOf(c).skipped

\* a history made of user/assistant pairs
PairedHistory(h) ==
  /\ Len(h) % 2 = 0
  /\ \A i \in 1..Len(h) : h[i].role = (IF i % 2 = 1 THEN "user" ELSE "assistant")

\* the history of key k in a history store
HistoryOf(store, k) == IF k \in DOMAIN store THEN store[k] ELSE <<>>

\* C12: in serial turns the history of a key is always a sequence of
\* user/assistant pairs; a step in which the completion call of a turn
\* returns appends the utterance as a user message and then the reply as an
\* assistant message to it, and every other step leaves it as it is.
C12_HistoryAppendOnly ==
  /\ [](\A k \in SerialKeys : PairedHistory(HistoryOf(_history_store, k)))
  /\ [][\A k \in SerialKeys :
          /\ \A c \in Calls :
               (calls[c].key = k /\ calls[c].pc = "completion" /\ calls'[c].pc = "extraction")
                 => HistoryOf(_history_store', k)
                      = HistoryOf(_history_store, k)
                          \o << Message("user", calls[c].user_input),
                                Message("assistant", calls'[c].reply_text) >>
          /\ (\A c \in Calls :
                ~(calls[c].key = k /\ calls[c].pc = "completion" /\ calls'[c].pc = "extraction"))
                 => HistoryOf(_history_store', k) = HistoryOf(_history_store, k)]_vars

\* the completion call of a second turn on a key has returned
C12_Witness ==
  \E c \in Calls :
    /\ calls[c].pc \in {"extraction", "returned", "raised"}
    /\ calls[c].pre.history # <<>>
    /\ Len(StateOf(c).history) = Len(calls[c].pre.history) + 2

\* C13: the snapshot a turn returns has the declared fields of UserProfile as
\* its keys, the stored value for every stored field and None for every
\* other field, and UserProfile accepts it with every value of the declared
\* type.
C13_SnapshotSchemaShaped ==
  \A c \in Calls :
    calls[c].pc = "returned"
      => /\ DOMAIN calls[c].full_profile = FieldSet
         /\ \A f \in FieldSet :
              /\ calls[c].full_profile[f] = Get(StateOf(c).profile, f)
              /\ calls[c].full_profile[f] # None
                   => calls[c].full_profile[f].t = FieldType(f)
         /\ ~ValidationFails(calls[c].full_profile)
         /\ DOMAIN StateOf(c).profile \subseteq FieldSet

\* a turn has returned whose extraction gave a key that is no field, with a
\* field stored
C13_Witness ==
  \E c \in Calls :
    /\ calls[c].pc = "returned"
    /\ "nickname" \in DOMAIN calls[c].updates
    /\ DOMAIN StateOf(c).profile # {}

\* the mapping the model calls of behaviour b gave, empty when they gave none
ModelData(b) ==
  IF b.lc \in {"model", "dict"} THEN b.data
  ELSE IF b.lc = "raise" /\ b.fb = "dict" THEN b.fbdata
  ELSE EmptyDict

\* the model-assisted extraction failed: the structured-output call raised
\* and the secondary call raised or gave text that is no JSON object
ModelExtractionFailed(b) == b.lc = "raise" /\ b.fb \in {"raise", "nonjson", "nondict"}

\* C14: when the model-assisted extraction fails or gives output that cannot
\* be decoded as an object, _extract_profile_updates returns, and returns
\* what _extract_from_labeled_lines gives for the utterance.
C14_FallbackToLabeledParser ==
  (res.op \in {"extract", "extract_raised"} /\ ModelExtractionFailed(arg.behaviour))
    => /\ res.op = "extract"
       /\ res.updates = ExtractFromLabeledLines(arg.user_input)

\* C15: in the mapping _extract_profile_updates returns no key maps to None,
\* a key the labeled-line parser produced carries the parser's value and any
\* other key carries the model's value; where the merge of lines 311 and 361
\* is reached every field of the parser and every declared field the model
\* gave with a value is a key of the mapping.
C15_LabeledValuesWin ==
  res.op = "extract"
    => /\ \A f \in DOMAIN res.updates :
            /\ res.updates[f] # None
            /\ f \in DOMAIN ExtractFromLabeledLines(arg.user_input)
                 => res.updates[f] = ExtractFromLabeledLines(arg.user_input)[f]
            /\ f \notin DOMAIN ExtractFromLabeledLines(arg.user_input)
                 => (f \in DOMAIN ModelData(arg.behaviour)
                       /\ res.updates[f] = ModelData(arg.behaviour)[f])
       /\ ~ModelExtractionFailed(arg.behaviour)
            => /\ DOMAIN ExtractFromLabeledLines(arg.user_input) \subseteq DOMAIN res.updates
               /\ \A f \in DOMAIN ModelData(arg.behaviour) \cap FieldSet :
                    ModelData(arg.behaviour)[f] # None => f \in DOMAIN res.updates

\* the parser and the model gave different values for age, and the model
\* gave a field the parser did not
C15_Witness ==
  /\ res.op = "extract"
  /\ "age" \in DOMAIN ExtractFromLabeledLines(arg.user_input)
  /\ "age" \in DOMAIN ModelData(arg.behaviour)
  /\ ModelData(arg.behaviour)["age"] # ExtractFromLabeledLines(arg.user_input)["age"]
  /\ DOMAIN res.updates \ DOMAIN ExtractFromLabeledLines(arg.user_input) # {}

\* C16: a first turn on a fresh key whose utterance is made of labeled lines
\* that give age, whose completion call succeeded and whose model calls
\* gave no value, returns with every field of the lines stored at the parsed
\* value and with date_of_birth neither in the profile nor in the next
\* _missing_fields result.
C16_LabeledFirstTurn ==
  \A c \in Calls :
    ( /\ calls[c].stage \in {"extraction", "done"}
      /\ calls[c].pre = EmptyState
      /\ "age" \in DOMAIN ExtractFromLabeledLines(calls[c].user_input)
      /\ DropNone(ModelData(calls[c].behaviour)) = EmptyDict )
      => /\ calls[c].pc = "returned"
         /\ \A f \in DOMAIN ExtractFromLabeledLines(calls[c].user_input) :
              /\ f \in DOMAIN StateOf(c).profile
              /\ StateOf(c).profile[f] = ExtractFromLabeledLines(calls[c].user_input)[f]
         /\ "date_of_birth" \notin DOMAIN StateOf(c).profile
         /\ "date_of_birth" \notin Range(MissingFields(StateOf(c).profile, StateOf(c).skipped))

\* C17: a turn whose completion call returned a response without content
\* fails, with no message appended to the history and no merge into the
\* profile.
C17_EmptyCompletionFailsTurn ==
  \A c \in Calls :
    ( /\ calls[c].pc = "extraction" \/ calls[c].stage \in {"extraction", "done"}
      /\ calls[c].content = NoContent )
      => /\ calls[c].pc = "raised"
         /\ StateOf(c).history = calls[c].pre.history
         /\ calls[c].updates = EmptyDict

\* C18: a step changes the records of one key at most, the key of the call
\* that takes the step; and a turn during which no other turn ran on its key
\* leaves its key with the records that the turn running alone on them
\* gives, whatever ran on the other keys meanwhile.
C18_KeysIsolated ==
  /\ [](\A c \in Calls :
          (calls[c].pc = "returned" /\ calls[c].alone)
            => StateOf(c) = SerialTurn(calls[c].pre, calls[c]))
  /\ [][\A k \in Keys :
          (\/ Get(_history_store', k) # Get(_history_store, k)
           \/ Get(_profile_store', k) # Get(_profile_store, k)
           \/ Get(_skipped_store', k) # Get(_skipped_store, k))
            => /\ \A c \in Calls : calls'[c] # calls[c] => calls'[c].key = k
               /\ \A j \in Keys \ {k} :
                    /\ Get(_history_store', j) = Get(_history_store, j)
                    /\ Get(_profile_store', j) = Get(_profile_store, j)
                    /\ Get(_skipped_store', j) = Get(_skipped_store, j)]_vars

\* a turn began and returned on one key while a turn on another key, which
\* had skipped a field, was waiting for its completion
C18_Witness ==
  \E c, d \in Calls :
    /\ calls[c].pc = "completion" /\ calls[d].pc = "returned" /\ calls[d].alone
    /\ calls[c].key # calls[d].key
    /\ calls[d].turn > calls[c].turn
    /\ StateOf(d).history # <<>>
    /\ StateOf(c).skipped # {}

\* C19: a second call of _apply_derived_fields on the same date leaves the
\* profile that the first call left.
C19_DerivedIdempotent ==
  [][(res.op = "derive" /\ res'.op = "derive_again") => res'.profile = res.profile]_vars

\* _apply_derived_fields ran twice on a profile that its first call changed
C19_Witness ==
  /\ res.op = "derive_again"
  /\ res.profile # arg.profile
  /\ "age" \in DOMAIN res.profile

\* the age the claim gives: the difference of the years, less one when the
\* (month, day) of the date is before the (month, day) of the birth
ClaimedAge(dob, day) ==
  Year(day) - Year(dob)
    - (IF \/ Month(day) < Month(dob)
          \/ Month(day) = Month(dob) /\ Day(day) < Day(dob)
         THEN 1 ELSE 0)

\* C20 as stated: with date_of_birth present and age absent,
\* _apply_derived_fields sets age to the claimed number.
C20_AgeFromDateOfBirth ==
  (res.op = "derive" /\ "date_of_birth" \in DOMAIN arg.profile /\ "age" \notin DOMAIN arg.profile)
    => /\ "age" \in DOMAIN res.profile
       /\ res.profile["age"] = IntV(ClaimedAge(arg.profile["date_of_birth"].n, arg.day))

\* C20 as amended: with date_of_birth present and age absent,
\* _apply_derived_fields sets age to the claimed number when that number is
\* not negative and changes nothing else; when date_of_birth is later than
\* the date it leaves the profile as it is.  1990-06-15 on 2024-01-10 gives 33.
C20_AgeFromPastDateOfBirth ==
  (res.op = "derive" /\ "date_of_birth" \in DOMAIN arg.profile /\ "age" \notin DOMAIN arg.profile)
    => /\ ClaimedAge(arg.profile["date_of_birth"].n, arg.day) >= 0
            => res.profile
                 = Put(arg.profile, "age",
                       IntV(ClaimedAge(arg.profile["date_of_birth"].n, arg.day)))
       /\ ClaimedAge(arg.profile["date_of_birth"].n, arg.day) < 0
            => res.profile = arg.profile
       /\ (arg.profile["date_of_birth"] = DateV(19900615) /\ arg.day = 20240110)
            => res.profile["age"] = IntV(33)

\* _apply_derived_fields ran on date_of_birth 1990-06-15 without age on
\* 2024-01-10 and left age 33
C20_Witness ==
  /\ res.op = "derive"
  /\ "age" \notin DOMAIN arg.profile
  /\ Get(arg.profile, "date_of_birth") = DateV(19900615)
  /\ arg.day = 20240110
  /\ Get(res.profile, "age") = IntV(33)

\* C21: for every key the history record, the profile record and the
\* skipped record are all in the store or none of them is: a history read
\* creates no record.
C21_RecordsCreatedTogether ==
  \A k \in Keys :
    /\ (k \in DOMAIN _history_store) = (k \in DOMAIN _profile_store)
    /\ (k \in DOMAIN _profile_store) = (k \in DOMAIN _skipped_store)

\* C22: in an onboarding where every turn with a targeted field skips it or
\* gives it, each turn shortens the list of missing fields, after as many
\* turns as there are fields no field is targeted, and once no field is
\* targeted none is targeted again.
C22_SlotFillingCompletes ==
  /\ [](/\ turns >= Len(Fields) => FillingTarget = NoField
        /\ turns <= Len(Fields)
             => Len(MissingFields(KeyState(FillingKey).profile, KeyState(FillingKey).skipped))
                  <= Len(Fields) - turns)
  /\ [][FillingTarget = NoField => FillingTarget' = NoField]_vars

\* the twentieth turn of an onboarding settled the last field, age and
\* date_of_birth having been skipped
C22_Witness ==
  /\ turns = Len(Fields)
  /\ FillingTarget = NoField
  /\ calls[1].targeted_field = "voice_or_chat_preference"
  /\ {"age", "date_of_birth"} \subseteq KeyState(FillingKey).skipped

\* the missing fields after the derivation and the skip handling of the turn
\* of call record r
MissingAfterSkip(r) ==
  MissingFields(AfterSkipHandling(r.pre, r.user_input, r.day_begin).profile,
                AfterSkipHandling(r.pre, r.user_input, r.day_begin).skipped)

\* C23: the prompt of a turn has one tail instruction: NEXT_FIELD with the
\* first field that is missing after the derivation and the skip handling of
\* the turn (in a skip turn a field after the skipped one), or the summary
\* instruction when no field is missing then.
C23_PromptTail ==
  \A c \in Calls :
    calls[c].pc = "returned"
      => /\ calls[c].prompt.tail \in {"NEXT_FIELD", "SUMMARY"}
         /\ MissingAfterSkip(calls[c]) # <<>>
              => /\ calls[c].prompt.tail = "NEXT_FIELD"
                 /\ calls[c].prompt.next_field = MissingAfterSkip(calls[c])[1]
                 /\ \A i \in 2..Len(MissingAfterSkip(calls[c])) :
                      FieldIndex(calls[c].prompt.next_field)
                        < FieldIndex(MissingAfterSkip(calls[c])[i])
                 /\ (calls[c].targeted_field # NoField /\ IsSkipToken(calls[c].user_input))
                      => FieldIndex(calls[c].prompt.next_field)
                           > FieldIndex(calls[c].targeted_field)
         /\ MissingAfterSkip(calls[c]) = <<>>
              => /\ calls[c].prompt.tail = "SUMMARY"
                 /\ calls[c].prompt.next_field = NoField

\* after an earlier skip turn, the turn that skipped the last field carried
\* the summary instruction in its prompt
C23_Witness ==
  /\ calls[1].pc = "returned"
  /\ calls[1].targeted_field = "voice_or_chat_preference"
  /\ IsSkipToken(calls[1].user_input)
  /\ calls[1].prompt.tail = "SUMMARY"
  /\ "gender_or_sex" \in calls[1].pre.skipped

\* the missing fields of key k in a profile store and a skipped store
MissingOf(profiles, skips, k) ==
  Range(MissingFields(IF k \in DOMAIN profiles THEN profiles[k] ELSE EmptyDict,
                      IF k \in DOMAIN skips THEN skips[k] ELSE {}))

\* C24: in serial turns no step adds a field to the missing fields of a key.
C24_MissingNeverGrows ==
  [][\A k \in SerialKeys :
       MissingOf(_profile_store', _skipped_store', k)
         \subseteq MissingOf(_profile_store, _skipped_store, k)]_vars

\* a key with a field skipped, a field stored and date_of_birth left out of
\* the missing fields by the stored age
C24_Witness ==
  \E k \in SerialKeys :
    /\ KeyState(k).skipped # {}
    /\ "sleep_bedtime" \in DOMAIN KeyState(k).profile
    /\ "date_of_birth" \notin DOMAIN KeyState(k).profile \cup KeyState(k).skipped
    /\ "date_of_birth" \notin MissingOf(_profile_store, _skipped_store, k)

\* C25: a turn adds to the skipped set at most the field that was first in
\* _missing_fields when it began, and adds nothing when there was no such
\* field or the utterance, trimmed and lower-cased, is no skip token.
C25_SkipAddsTargetedOnly ==
  \A c \in Calls :
    calls[c].pc = "returned"
      => /\ calls[c].pre.skipped \subseteq StateOf(c).skipped
         /\ Cardinality(StateOf(c).skipped \ calls[c].pre.skipped) <= 1
         /\ \A f \in StateOf(c).skipped \ calls[c].pre.skipped :
              /\ MissingFields(calls[c].pre.profile, calls[c].pre.skipped) # <<>>
              /\ f = MissingFields(calls[c].pre.profile, calls[c].pre.skipped)[1]
         /\ ( \/ MissingFields(calls[c].pre.profile, calls[c].pre.skipped) = <<>>
              \/ Lower(Strip(Chars(calls[c].user_input)))
                   \notin {Chars("skip"), Chars("unknown"), Chars("na"), Chars("n/a")} )
              => StateOf(c).skipped = calls[c].pre.skipped

\* the first turn skipped age with a token that needed trimming and
\* lower-casing, and a later turn said skip when no field was targeted
C25_Witness ==
  /\ calls[1].pc = "returned"
  /\ calls[1].user_input = "skip"
  /\ calls[1].targeted_field = NoField
  /\ StateOf(1).history[1].content = " N/A\n"
  /\ "age" \in StateOf(1).skipped

\* date_of_birth of the profile is a date after day, or text that is no date
NoUsableBirthDate(profile, day) ==
  \/ profile["date_of_birth"].t = "date" /\ profile["date_of_birth"].n > day
  \/ profile["date_of_birth"].t = "str" /\ FromIsoFormat(profile["date_of_birth"].s) = None

\* C26: an age that _apply_derived_fields writes is an integer that is not
\* negative; with a date_of_birth later than the date, or one that cannot
\* be parsed, the call returns the profile as it was, age absent; and
\* _missing_fields does not list age for a profile with date_of_birth.
C26_DerivedAgeNeverNegative ==
  /\ res.op \in {"derive", "derive_again"}
       => /\ ("age" \in DOMAIN res.profile
                /\ Get(res.profile, "age") # Get(arg.profile, "age"))
               => (res.profile["age"].t = "int" /\ res.profile["age"].n >= 0)
          /\ ("date_of_birth" \in DOMAIN arg.profile /\ "age" \notin DOMAIN arg.profile
                /\ NoUsableBirthDate(arg.profile, arg.day))
               => (res.profile = arg.profile /\ "age" \notin DOMAIN res.profile)
  /\ (res.op = "missing" /\ "date_of_birth" \in DOMAIN arg.profile)
       => "age" \notin Range(res.missing)

\* _apply_derived_fields ran on a profile without age whose date_of_birth
\* is the day after the date
C26_Witness ==
  /\ res.op = "derive"
  /\ "age" \notin DOMAIN arg.profile
  /\ Get(arg.profile, "date_of_birth") = DateV(20240615)
  /\ arg.day = 20240614
  /\ res.profile = arg.profile

====
